---- MODULE Spec2Model ----
(***************************************************************************)
(* The blog server of server.js as a state machine.                        *)
(*                                                                         *)
(* State: the posts file (POST_FILE), the wall clock read by Date.now(),   *)
(* the tokens login has handed out, the requests that clients have sent    *)
(* and the server has not yet handled, and the last response sent.         *)
(*                                                                         *)
(* Every route handler of server.js is synchronous (readFileSync,          *)
(* writeFileSync, no await, no callback between the read and the save), so *)
(* on Node's single-threaded event loop a handler runs to completion: one  *)
(* action per handler, from authMiddleware to the response.                *)
(*                                                                         *)
(* Requests are taken as the route layer sees them: req.body is the object *)
(* express.json() produced, req.params.id the string of the URL, req.file  *)
(* what multer produced.                                                   *)
(***************************************************************************)
EXTENDS Integers, Sequences, FiniteSets, TLC

VARIABLES
    clock,      \* milliseconds since the epoch, as Date.now() returns them
    ticks,      \* how many times the clock has advanced (bounds the model)
    POST_FILE,  \* the JSON document of data/posts.json: a sequence of posts
    issued,     \* the tokens /api/login has returned so far
    inflight,   \* requests sent by clients and not yet handled
    res         \* the last response, with the request it answers

vars == <<clock, ticks, POST_FILE, issued, inflight, res>>

(***************************************************************************)
(* Bounds of the model.                                                    *)
(***************************************************************************)
MaxTicks == 1
MaxPosts == 2
MaxInflight == 2

(***************************************************************************)
(* Configuration (server.js 26-27, 86, 162).                               *)
(***************************************************************************)
ADMIN_PASSWORD == "666"
JWT_SECRET == "blog-secret-key"
ExpiresInSec == 86400
FileSizeLimit == 10 * 1024 * 1024

(***************************************************************************)
(* JavaScript values.                                                      *)
(***************************************************************************)
Undefined == "undefined"

\* A check for a missing property only, which lets the empty string through.
Falsy_undefinedOnly(v) == v = Undefined

\* !v for the values a title takes: undefined and the empty string are falsy.
Falsy(v) == v = Undefined \/ v = ""

\* A value of req.body.password with its JavaScript type.
JsString(s) == [type |-> "string", val |-> s]
JsNumber(s) == [type |-> "number", val |-> s]
JsUndefined == [type |-> "undefined", val |-> ""]

\* a != "<string literal>": loose, so the number 666 equals the string "666".
LooseNotEqual(a, lit) == ~(a.type \in {"string", "number"} /\ a.val = lit)

\* a !== "<string literal>": strict, so a value of another type never equals it.
StrictNotEqual(a, lit) == ~(a.type = "string" /\ a.val = lit)

Range(s) == {s[i] : i \in DOMAIN s}

(***************************************************************************)
(* Decimal strings: req.params.id is a string, a post's id a number, and   *)
(* p.id == req.params.id converts the string with ToNumber.                *)
(***************************************************************************)
DigitChars == <<"0", "1", "2", "3", "4", "5", "6", "7", "8", "9">>

IsDigit(c) == \E d \in 1..10 : DigitChars[d] = c

DigitVal(c) == (CHOOSE d \in 1..10 : DigitChars[d] = c) - 1

RECURSIVE NumToStr(_)
\* String(n) for a natural number n.
NumToStr(n) ==
    IF n < 10 THEN <<DigitChars[n + 1]>>
    ELSE NumToStr(n \div 10) \o <<DigitChars[(n % 10) + 1]>>

RECURSIVE DecimalValue(_)
DecimalValue(s) ==
    IF s = <<>> THEN 0
    ELSE 10 * DecimalValue(SubSeq(s, 1, Len(s) - 1)) + DigitVal(s[Len(s)])

\* ToNumber of a string of decimal digits and letters: the empty string is 0,
\* digits are read in base ten (leading zeros allowed), anything else is NaN.
ToNumber(s) ==
    IF \A i \in DOMAIN s : IsDigit(s[i])
    THEN [nan |-> FALSE, val |-> DecimalValue(s)]
    ELSE [nan |-> TRUE, val |-> 0]

\* n == s for a number n and a string s: NaN equals nothing.
LooseEq(n, s) == LET v == ToNumber(s) IN ~v.nan /\ v.val = n

(***************************************************************************)
(* JSON documents. An object is a record; JSON.stringify leaves out the    *)
(* properties whose value is undefined, and reading a property an object   *)
(* does not have yields undefined.                                         *)
(***************************************************************************)
Get(obj, f) == IF f \in DOMAIN obj THEN obj[f] ELSE Undefined

SetField(obj, f, v) ==
    [g \in (DOMAIN obj) \cup {f} |-> IF g = f THEN v ELSE obj[g]]

\* Only title and content can hold undefined: they come from req.body.
Stringify(obj) ==
    LET kept == {f \in DOMAIN obj :
                    ~(f \in {"title", "content"} /\ obj[f] = Undefined)}
    IN [f \in kept |-> obj[f]]

\* new Date().toISOString() of the time ms.
toISOString(ms) == ToString(ms)

\* function readPosts(): the parsed document.
readPosts == POST_FILE

\* function savePosts(data): the document written by JSON.stringify.
savePosts(data) == [i \in 1..Len(data) |-> Stringify(data[i])]

(***************************************************************************)
(* Tokens. jwt.sign stamps iat and exp in whole seconds; jwt.verify throws *)
(* for anything that is not a token signed with the secret, and for a      *)
(* token whose exp is not after the current second.                        *)
(***************************************************************************)
SecOf(ms) == ms \div 1000

jwtSign(secret, now) ==
    [kind |-> "jwt", sig |-> secret, role |-> "admin",
     iat |-> SecOf(now), exp |-> SecOf(now) + ExpiresInSec]

\* jwt.verify with the expiry check left out.
jwtVerify_ignoreExpiration(token, secret, now) ==
    token.kind = "jwt" /\ token.sig = secret

jwtVerify(token, secret, now) ==
    token.kind = "jwt" /\ token.sig = secret /\ SecOf(now) < token.exp

\* What a client can put after "Bearer " without the secret.
EmptyCred == [kind |-> "empty", sig |-> "", role |-> "", iat |-> 0, exp |-> 0]
GarbageCred == [EmptyCred EXCEPT !.kind = "garbage"]
ForgedCred(now) == jwtSign("not-the-secret", now)

\* The Authorization header: absent, or "Bearer " + cred, or cred alone.
NoHeader == [present |-> FALSE, prefix |-> FALSE, cred |-> EmptyCred]
Header(prefix, cred) == [present |-> TRUE, prefix |-> prefix, cred |-> cred]

\* req.headers.authorization?.replace("Bearer ", ""): the prefix is dropped
\* when it is there, and the rest is the token either way.
BearerToken(h) == IF h.present THEN h.cred ELSE EmptyCred

(***************************************************************************)
(* Requests and responses.                                                 *)
(***************************************************************************)
NoFile == [present |-> FALSE, size |-> 0, originalname |-> ""]
NoBody == [title |-> Undefined, content |-> Undefined]

\* A request as a handler sees it. snap (the posts file when the client sent
\* the request) is not part of the request: no handler reads it.
Req(route, authorization, password, body, id, file) ==
    [route |-> route, authorization |-> authorization, password |-> password,
     title |-> body.title, content |-> body.content, id |-> id, file |-> file,
     snap |-> POST_FILE]

\* res.status(status).json(body), or .end() when hasBody is FALSE.
Reply(req, status, hasBody, body) ==
    [route |-> req.route, status |-> status, hasBody |-> hasBody, body |-> body]

NoResponse ==
    [route |-> "none", status |-> 0, hasBody |-> FALSE, body |-> <<>>]

(***************************************************************************)
(* function authMiddleware(req, res, next)                                 *)
(***************************************************************************)
authMiddleware(req) ==
    LET h == req.authorization
        token == BearerToken(h)
    IN IF ~h.present \/ token.kind = "empty"
       THEN [next |-> FALSE, status |-> 401, body |-> [msg |-> "not logged in"]]
       ELSE IF jwtVerify(token, JWT_SECRET, clock)
       THEN [next |-> TRUE, status |-> 0, body |-> [msg |-> ""]]
       ELSE [next |-> FALSE, status |-> 401, body |-> [msg |-> "login expired"]]

Rejected(req, a) ==
    /\ res' = Reply(req, a.status, TRUE, a.body)
    /\ UNCHANGED <<POST_FILE, issued>>

(***************************************************************************)
(* app.post("/api/login")                                                  *)
(***************************************************************************)
login(req) ==
    IF StrictNotEqual(req.password, ADMIN_PASSWORD)
    THEN /\ res' = Reply(req, 401, TRUE, [msg |-> "wrong password"])
         /\ UNCHANGED <<POST_FILE, issued>>
    ELSE LET token == jwtSign(JWT_SECRET, clock)
         IN /\ res' = Reply(req, 200, TRUE, [token |-> token])
            /\ issued' = issued \cup {token}
            /\ UNCHANGED POST_FILE

(***************************************************************************)
(* app.get("/api/posts"): Array.prototype.sort is stable, so posts with    *)
(* equal ids keep their stored order.                                      *)
(***************************************************************************)
InsertDesc(sorted, p) ==
    LET k == Cardinality({i \in DOMAIN sorted : sorted[i].id >= p.id})
    IN SubSeq(sorted, 1, k) \o <<p>> \o SubSeq(sorted, k + 1, Len(sorted))

RECURSIVE sortByIdDesc(_)
sortByIdDesc(posts) ==
    IF posts = <<>> THEN <<>>
    ELSE InsertDesc(sortByIdDesc(SubSeq(posts, 1, Len(posts) - 1)),
                    posts[Len(posts)])

listPosts(req) ==
    /\ res' = Reply(req, 200, TRUE, sortByIdDesc(readPosts))
    /\ UNCHANGED <<POST_FILE, issued>>

(***************************************************************************)
(* app.get("/api/posts/:id")                                               *)
(***************************************************************************)
\* A search that falls back to the first post when none matches.
findIndex_orFirst(posts, id) ==
    LET hits == {i \in DOMAIN posts : LooseEq(posts[i].id, id)}
    IN IF hits = {} THEN (IF posts = <<>> THEN 0 ELSE 1)
       ELSE CHOOSE i \in hits : \A j \in hits : i <= j

\* posts.findIndex(p => p.id == id), counted from 1; 0 when none matches.
findIndex(posts, id) ==
    LET hits == {i \in DOMAIN posts : LooseEq(posts[i].id, id)}
    IN IF hits = {} THEN 0 ELSE CHOOSE i \in hits : \A j \in hits : i <= j

getPost(req) ==
    LET posts == readPosts
        index == findIndex(posts, req.id)
    IN /\ res' = IF index = 0 THEN Reply(req, 404, FALSE, <<>>)
                 ELSE Reply(req, 200, TRUE, posts[index])
       /\ UNCHANGED <<POST_FILE, issued>>

(***************************************************************************)
(* app.post("/api/posts", authMiddleware, ...)                             *)
(***************************************************************************)
\* posts.push(post): the new post goes last.
push(posts, post) == posts \o <<post>>

\* A create that replaces the stored posts of the same id.
unshift_dedup(posts, post) ==
    LET other(p) == p.id # post.id IN <<post>> \o SelectSeq(posts, other)

\* posts.unshift(post): the new post goes first.
unshift(posts, post) == <<post>> \o posts

createPost(req) ==
    LET a == authMiddleware(req)
    IN IF ~a.next THEN Rejected(req, a)
       ELSE IF Falsy(req.title)
       THEN /\ res' = Reply(req, 400, TRUE, [msg |-> "missing title"])
            /\ UNCHANGED <<POST_FILE, issued>>
       ELSE LET posts == readPosts
                post == [id |-> clock, title |-> req.title,
                         content |-> req.content,
                         createdAt |-> toISOString(clock)]
            IN /\ Len(posts) < MaxPosts
               /\ POST_FILE' = savePosts(unshift(posts, post))
               /\ res' = Reply(req, 200, TRUE, Stringify(post))
               /\ UNCHANGED issued

(***************************************************************************)
(* app.put("/api/posts/:id", authMiddleware, ...)                          *)
(***************************************************************************)
\* The three assignments to posts[index].
assign(post, req) ==
    SetField(SetField(SetField(post,
        "title", req.title),
        "content", req.content),
        "updatedAt", toISOString(clock))

\* An update applied to every post that matches, not to posts[index] alone.
updateAt_everyMatch(posts, index, req) ==
    [i \in DOMAIN posts |->
        IF LooseEq(posts[i].id, req.id) THEN assign(posts[i], req)
        ELSE posts[i]]

updateAt(posts, index, req) ==
    [posts EXCEPT ![index] = assign(posts[index], req)]

updatePost(req) ==
    LET a == authMiddleware(req)
    IN IF ~a.next THEN Rejected(req, a)
       ELSE LET posts == readPosts
                index == findIndex(posts, req.id)
            IN IF index = 0
               THEN /\ res' = Reply(req, 404, FALSE, <<>>)
                    /\ UNCHANGED <<POST_FILE, issued>>
               ELSE LET posts2 == updateAt(posts, index, req)
                    IN /\ POST_FILE' = savePosts(posts2)
                       /\ res' = Reply(req, 200, TRUE, Stringify(posts2[index]))
                       /\ UNCHANGED issued

(***************************************************************************)
(* app.delete("/api/posts/:id", authMiddleware, ...)                       *)
(***************************************************************************)
\* A filter that drops the first matching post only.
filter_firstOnly(posts, id) ==
    LET hits == {i \in DOMAIN posts : LooseEq(posts[i].id, id)}
        first == CHOOSE i \in hits : \A j \in hits : i <= j
    IN IF hits = {} THEN posts
       ELSE SubSeq(posts, 1, first - 1) \o SubSeq(posts, first + 1, Len(posts))

\* posts.filter(p => p.id != id)
filter(posts, id) ==
    LET keep(p) == ~LooseEq(p.id, id) IN SelectSeq(posts, keep)

\* A handler that works on the posts file as it was when the request was
\* sent, as one that reads asynchronously and saves later would.
deletePost_stale(req) ==
    LET a == authMiddleware(req)
    IN IF ~a.next THEN Rejected(req, a)
       ELSE LET posts == filter(req.snap, req.id)
            IN /\ POST_FILE' = savePosts(posts)
               /\ res' = Reply(req, 200, TRUE, [ok |-> TRUE])
               /\ UNCHANGED issued

deletePost(req) ==
    LET a == authMiddleware(req)
    IN IF ~a.next THEN Rejected(req, a)
       ELSE LET posts == filter(readPosts, req.id)
            IN /\ POST_FILE' = savePosts(posts)
               /\ res' = Reply(req, 200, TRUE, [ok |-> TRUE])
               /\ UNCHANGED issued

(***************************************************************************)
(* app.post("/api/upload", authMiddleware, upload.single("file"), ...)     *)
(* multer fails a file above limits.fileSize; no error handler is          *)
(* installed, so the framework answers that error itself with 500.         *)
(***************************************************************************)
upload(req, rnd) ==
    LET a == authMiddleware(req)
    IN IF ~a.next THEN Rejected(req, a)
       ELSE /\ res' =
                IF req.file.present /\ req.file.size > FileSizeLimit
                THEN Reply(req, 500, TRUE, [html |-> "MulterError"])
                ELSE IF ~req.file.present THEN Reply(req, 400, FALSE, <<>>)
                ELSE Reply(req, 200, TRUE,
                           [url |-> [dir |-> "/uploads/", ms |-> clock,
                                     rnd |-> rnd],
                            filename |-> req.file.originalname])
            /\ UNCHANGED <<POST_FILE, issued>>

(***************************************************************************)
(* app.use((_, res) => res.status(404).json({ msg: "API Not Found" }))     *)
(***************************************************************************)
notFound(req) ==
    /\ res' = Reply(req, 404, TRUE, [msg |-> "API Not Found"])
    /\ UNCHANGED <<POST_FILE, issued>>

(***************************************************************************)
(* What clients send.                                                      *)
(***************************************************************************)
Passwords == {JsString("666"), JsString("667"), JsNumber("666"), JsUndefined}

\* Tokens a client holds: those login returned. Without the secret a client
\* can also send nothing, an empty token, garbage, or a token it signed itself.
GoodHeaders == {Header(TRUE, t) : t \in issued}

BadHeaders ==
    {NoHeader, Header(TRUE, EmptyCred), Header(TRUE, GarbageCred),
     Header(TRUE, ForgedCred(clock))}

Headers == GoodHeaders \cup BadHeaders

TitleA == [title |-> "A", content |-> "x"]
TitleB == [title |-> "B", content |-> Undefined]

Bodies == {NoBody, [title |-> "", content |-> "x"], TitleA, TitleB}

EmptyTitle == [title |-> "", content |-> "y"]

UpdateBodies == {EmptyTitle}

StoredIds == {POST_FILE[i].id : i \in DOMAIN POST_FILE}

\* Ids a client may ask for: those stored and the current time, written in
\* decimal, with a leading zero, and a string that is no number.
Params ==
    LET ids == StoredIds \cup {clock}
    IN {NumToStr(n) : n \in ids}
       \cup {<<"0">> \o NumToStr(n) : n \in StoredIds} \cup {<<"x">>}

StoredParams == {NumToStr(n) : n \in StoredIds}

Files1 == [present |-> TRUE, size |-> 1, originalname |-> "a.png"]

Files ==
    {NoFile, Files1,
     [present |-> TRUE, size |-> FileSizeLimit + 1, originalname |-> "b.bin"]}

LoginReq(pw) == Req("login", NoHeader, pw, NoBody, <<>>, NoFile)
ListReq == Req("list", NoHeader, JsUndefined, NoBody, <<>>, NoFile)
GetReq(id) == Req("get", NoHeader, JsUndefined, NoBody, id, NoFile)
CreateReq(h, b) == Req("create", h, JsUndefined, b, <<>>, NoFile)
UpdateReq(h, b, id) == Req("update", h, JsUndefined, b, id, NoFile)
DeleteReq(h, id) == Req("delete", h, JsUndefined, NoBody, id, NoFile)
UploadReq(h, f) == Req("upload", h, JsUndefined, NoBody, <<>>, f)
OtherReq == Req("unmatched", NoHeader, JsUndefined, NoBody, <<>>, NoFile)

(***************************************************************************)
(* The server handling one request from start to end, the request sent     *)
(* and handled with nothing in between.                                    *)
(***************************************************************************)
Idle == UNCHANGED <<clock, ticks, inflight>>

Login == \E pw \in Passwords : login(LoginReq(pw)) /\ Idle

ListPosts == listPosts(ListReq) /\ Idle

GetPost == \E id \in Params : getPost(GetReq(id)) /\ Idle

\* A handler reads the body and the id only after authMiddleware let the
\* request through, so a request with a bad header is sent with one body and
\* one id: those that would change the store if it came through.
CreatePost ==
    \/ \E h \in GoodHeaders, b \in Bodies : createPost(CreateReq(h, b)) /\ Idle
    \/ \E h \in BadHeaders : createPost(CreateReq(h, TitleA)) /\ Idle

UpdatePost ==
    \/ \E h \in GoodHeaders, b \in UpdateBodies, id \in Params :
            updatePost(UpdateReq(h, b, id)) /\ Idle
    \/ \E h \in BadHeaders, id \in StoredParams :
            updatePost(UpdateReq(h, TitleB, id)) /\ Idle

DeletePost ==
    \/ \E h \in GoodHeaders, id \in Params :
            deletePost(DeleteReq(h, id)) /\ Idle
    \/ \E h \in BadHeaders, id \in StoredParams :
            deletePost(DeleteReq(h, id)) /\ Idle

Upload ==
    \/ \E h \in GoodHeaders, f \in Files, rnd \in {"1f"} :
            upload(UploadReq(h, f), rnd) /\ Idle
    \/ \E h \in BadHeaders : upload(UploadReq(h, Files1), "1f") /\ Idle

NotFound == notFound(OtherReq) /\ Idle

\* Time passes: a millisecond.
TickMs ==
    /\ ticks < MaxTicks
    /\ clock' = clock + 1
    /\ ticks' = ticks + 1
    /\ UNCHANGED <<POST_FILE, issued, inflight, res>>

Init ==
    /\ clock = 5000
    /\ ticks = 0
    /\ POST_FILE = <<>>
    /\ issued = {}
    /\ inflight = {}
    /\ res = NoResponse

Next ==
    \/ TickMs
    \/ Login
    \/ ListPosts
    \/ GetPost
    \/ CreatePost
    \/ UpdatePost
    \/ DeletePost
    \/ Upload
    \/ NotFound

Spec == Init /\ [][Next]_vars

(***************************************************************************)
(* The auth gate over a day: the clock advances by a second short of a day *)
(* and by a day, and every protected route is asked with every header.     *)
(***************************************************************************)
Steps == {86399000, 86400000}

Tick ==
    /\ ticks < MaxTicks
    /\ \E d \in Steps : clock' = clock + d
    /\ ticks' = ticks + 1
    /\ UNCHANGED <<POST_FILE, issued, inflight, res>>

AuthCreate == \E h \in Headers : createPost(CreateReq(h, TitleA)) /\ Idle

AuthUpdate ==
    \E h \in Headers, id \in StoredParams :
        updatePost(UpdateReq(h, TitleB, id)) /\ Idle

AuthDelete ==
    \E h \in Headers, id \in StoredParams :
        deletePost(DeleteReq(h, id)) /\ Idle

AuthUpload == \E h \in Headers : upload(UploadReq(h, Files1), "1f") /\ Idle

NextAuth ==
    \/ Tick
    \/ Login
    \/ AuthCreate
    \/ AuthUpdate
    \/ AuthDelete
    \/ AuthUpload

SpecAuth == Init /\ [][NextAuth]_vars

(***************************************************************************)
(* Concurrent clients: writers holding a token send requests that stay in  *)
(* flight until the event loop runs their handler, in any order.           *)
(***************************************************************************)
ConcRequests ==
    {CreateReq(h, TitleA) : h \in GoodHeaders}
    \cup {DeleteReq(h, id) : h \in GoodHeaders, id \in StoredParams}

Send ==
    /\ Cardinality(inflight) < MaxInflight
    /\ \E req \in ConcRequests : inflight' = inflight \cup {req}
    /\ UNCHANGED <<clock, ticks, POST_FILE, issued, res>>

\* The router: the handler of the request's route.
Route(req) ==
    CASE req.route = "create" -> createPost(req)
      [] req.route = "update" -> updatePost(req)
      [] req.route = "delete" -> deletePost(req)

Deliver ==
    \E req \in inflight :
        /\ Route(req)
        /\ inflight' = inflight \ {req}
        /\ UNCHANGED <<clock, ticks>>

NextConc ==
    \/ TickMs
    \/ Login
    \/ Send
    \/ Deliver

SpecConc == Init /\ [][NextConc]_vars

(***************************************************************************)
(* Vocabulary of the properties.                                           *)
(***************************************************************************)
Day == 24 * 60 * 60

\* Less than 24 hours have passed since the token was issued, on the clock of
\* whole seconds that the token is stamped with.
Fresh(t) == SecOf(clock) - t.iat < Day

\* The header carries a token that login issued and that has not expired.
Authenticated(h) == h.present /\ h.cred \in issued /\ Fresh(h.cred)

\* No token, a token login never issued (malformed), or an expired one. A
\* token presented more than 24 hours after login returned it is expired.
BadToken(h) == ~h.present \/ h.cred \notin issued \/ ~Fresh(h.cred)

\* The id of the URL matches the post, as the handlers compare them.
Matches(p, id) == LooseEq(p.id, id)

NoMatch(id) == \A i \in DOMAIN POST_FILE : ~Matches(POST_FILE[i], id)

RECURSIVE Without(_, _)
\* posts with every post that matches id removed, the others in order.
Without(posts, id) ==
    IF posts = <<>> THEN <<>>
    ELSE IF Matches(Head(posts), id) THEN Without(Tail(posts), id)
    ELSE <<Head(posts)>> \o Without(Tail(posts), id)

Protected == {"create", "update", "delete", "upload"}

\* The step handles a request to a protected route that carries header h.
ProtectedStep(h) ==
    /\ res'.route \in Protected
    /\ \/ res'.route = "create" /\ createPost(CreateReq(h, TitleA))
       \/ /\ res'.route = "update"
          /\ \E id \in StoredParams : updatePost(UpdateReq(h, TitleB, id))
       \/ /\ res'.route = "delete"
          /\ \E id \in StoredParams : deletePost(DeleteReq(h, id))
       \/ res'.route = "upload" /\ upload(UploadReq(h, Files1), "1f")
    /\ Idle

(***************************************************************************)
(* C1. A request to a protected route with no token, a malformed token or  *)
(* an expired token is answered 401, and the posts file is after the       *)
(* request what it was before.                                             *)
(***************************************************************************)
C1_BadTokenRejected ==
    [][\A h \in Headers :
          BadToken(h) /\ ProtectedStep(h)
              => res'.status = 401 /\ POST_FILE' = POST_FILE]_vars

\* An issued token has expired, a protected route has answered 401 to a
\* token that jwt.verify refused, and the posts file holds a post.
C1_Witness ==
    /\ res.route \in Protected
    /\ res.status = 401
    /\ res.body.msg = "login expired"
    /\ \E t \in issued : ~Fresh(t)
    /\ POST_FILE # <<>>

(***************************************************************************)
(* C2. login issues a token only for the password that is exactly the      *)
(* admin secret; any other password is answered 401 and issues nothing;    *)
(* and a token login issued is let through by every protected route until  *)
(* it expires, 24 hours after it was issued.                               *)
(***************************************************************************)
C2_LoginAndToken ==
    [][/\ \A pw \in Passwords :
            res'.route = "login" /\ login(LoginReq(pw)) /\ Idle =>
                IF pw = JsString(ADMIN_PASSWORD)
                THEN /\ res'.status = 200
                     /\ DOMAIN res'.body = {"token"}
                     /\ issued' = issued \cup {res'.body.token}
                ELSE /\ res'.status = 401
                     /\ DOMAIN res'.body = {"msg"}
                     /\ issued' = issued
       /\ issued' # issued =>
            login(LoginReq(JsString(ADMIN_PASSWORD))) /\ Idle
       /\ \A h \in Headers :
            Authenticated(h) /\ ProtectedStep(h) => res'.status # 401]_vars

\* A protected route has let a token through in the last second before the
\* token expires.
C2_Witness ==
    /\ res.route \in Protected
    /\ res.status = 200
    /\ \E t \in issued : SecOf(clock) - t.iat = Day - 1

(***************************************************************************)
(* C3. An authenticated create with a non-empty title yields a post whose  *)
(* id is a number at least the time observed just before the call, and a   *)
(* list call that follows with no write in between returns that post       *)
(* first, whatever posts the collection held.                              *)
(***************************************************************************)
C3_CreateThenList ==
    [][/\ \A h \in Headers, b \in Bodies :
            /\ res'.route = "create"
            /\ Authenticated(h)
            /\ b.title \notin {Undefined, ""}
            /\ createPost(CreateReq(h, b)) /\ Idle
            => /\ res'.status = 200
               /\ res'.body.id \in Nat
               /\ res'.body.id >= clock
       /\ res.route = "create" /\ res.status = 200 /\ ListPosts
            => res'.body # <<>> /\ Head(res'.body) = res.body]_vars

\* A create has succeeded on a collection that already held a different post
\* with the same id, and a list call would return the new post first.
C3_Witness ==
    /\ res.route = "create" /\ res.status = 200
    /\ Len(POST_FILE) = 2
    /\ POST_FILE[1].id = POST_FILE[2].id
    /\ POST_FILE[1] # POST_FILE[2]
    /\ Head(sortByIdDesc(POST_FILE)) = res.body

(***************************************************************************)
(* C4. An authenticated create whose title is empty or missing is answered *)
(* 400 and leaves the posts file as it was.                                *)
(***************************************************************************)
C4_CreateWithoutTitle ==
    [][\A h \in Headers, b \in Bodies :
          /\ res'.route = "create"
          /\ Authenticated(h)
          /\ b.title \in {Undefined, ""}
          /\ createPost(CreateReq(h, b)) /\ Idle
          => res'.status = 400 /\ POST_FILE' = POST_FILE]_vars

C4_Witness ==
    /\ res.route = "create" /\ res.status = 400
    /\ POST_FILE # <<>>

(***************************************************************************)
(* C5. An authenticated update of an id that matches no stored post is     *)
(* answered 404 and leaves the posts file as it was.                       *)
(***************************************************************************)
C5_UpdateUnknownId ==
    [][\A h \in Headers, b \in UpdateBodies, id \in Params :
          /\ res'.route = "update"
          /\ Authenticated(h)
          /\ NoMatch(id)
          /\ updatePost(UpdateReq(h, b, id)) /\ Idle
          => res'.status = 404 /\ POST_FILE' = POST_FILE]_vars

C5_Witness ==
    /\ res.route = "update" /\ res.status = 404
    /\ POST_FILE # <<>>

(***************************************************************************)
(* C6. An authenticated delete always reports success; afterwards the      *)
(* posts file is the previous one with every matching post removed and the *)
(* others kept in order; so a delete that matches nothing changes nothing, *)
(* and the same delete repeated changes nothing further.                   *)
(***************************************************************************)
C6_Delete ==
    [][\A h \in Headers, id \in Params :
          /\ res'.route = "delete"
          /\ Authenticated(h)
          /\ deletePost(DeleteReq(h, id)) /\ Idle
          => /\ res'.status = 200
             /\ res'.body = [ok |-> TRUE]
             /\ POST_FILE' = Without(POST_FILE, id)
             /\ NoMatch(id) => POST_FILE' = POST_FILE
             /\ Without(POST_FILE', id) = POST_FILE']_vars

\* A delete has been answered and the posts file still holds a post that was
\* updated before: one the delete kept.
C6_Witness ==
    /\ res.route = "delete" /\ res.status = 200
    /\ Len(POST_FILE) = 1
    /\ "updatedAt" \in DOMAIN POST_FILE[1]

(***************************************************************************)
(* C7. Two writers in flight at the same time. The claim: both work on the *)
(* posts file as it was before either wrote, so the save of the second     *)
(* undoes the change of the first although that was answered with          *)
(* success.                                                                *)
(***************************************************************************)
\* The step runs the handler of the in-flight request req.
Delivered(req) ==
    /\ Route(req)
    /\ inflight' = inflight \ {req}
    /\ UNCHANGED <<clock, ticks>>

\* What the write of req makes of the collection base: a create puts its post
\* first, a delete removes the matching posts, an update puts its post in
\* the place of the first match.
Effect(req, base) ==
    CASE req.route = "create" -> <<res'.body>> \o base
      [] req.route = "delete" -> Without(base, req.id)
      [] req.route = "update" ->
            LET hits == {i \in DOMAIN base : Matches(base[i], req.id)}
                first == CHOOSE i \in hits : \A j \in hits : i <= j
            IN [base EXCEPT ![first] = res'.body]

\* The claim as stated: when the save of another writer landed while req was
\* in flight, the handler of req still works on the collection as it was
\* when both were in flight, and its save undoes the other writer's change.
C7_SecondWriterClobbers ==
    [][\A req \in inflight :
          /\ Delivered(req) /\ res'.status = 200
          /\ req.snap # POST_FILE
          => POST_FILE' = Effect(req, req.snap)]_vars

\* What the code does: a handler reads and saves in one run of the event
\* loop, so it works on the collection as the last save left it, and after
\* it the collection holds the changes of both writers.
C7_NoLostUpdate ==
    [][\A req \in inflight :
          Delivered(req) /\ res'.status = 200
          => /\ POST_FILE' = Effect(req, POST_FILE)
             /\ Effect(req, req.snap) # Effect(req, POST_FILE)
                  => POST_FILE' # Effect(req, req.snap)]_vars

\* A delete is in flight, sent before a create that has since been answered
\* with success and whose post is stored.
C7_Witness ==
    /\ res.route = "create" /\ res.status = 200
    /\ \E req \in inflight :
          /\ req.route = "delete"
          /\ res.body \in Range(POST_FILE) \ Range(req.snap)

(***************************************************************************)
(* C8. Every error response has a 4xx status and a JSON body {msg: string}.*)
(***************************************************************************)
C8_ErrorsAreJson ==
    res.status >= 400 =>
        /\ res.status < 500
        /\ res.hasBody
        /\ DOMAIN res.body = {"msg"}

(***************************************************************************)
(* C9. An authenticated update of an id that matches a stored post changes *)
(* the first matching post only: its title and content become those of the *)
(* request (an empty title included), updatedAt is set, its id, createdAt  *)
(* and position stay, every other post stays, and the response is the      *)
(* updated post.                                                           *)
(***************************************************************************)
FirstMatch(id) ==
    CHOOSE i \in DOMAIN POST_FILE :
        /\ Matches(POST_FILE[i], id)
        /\ \A j \in 1..(i - 1) : ~Matches(POST_FILE[j], id)

C9_UpdateFirstMatch ==
    [][\A h \in Headers, b \in UpdateBodies, id \in Params :
          /\ res'.route = "update"
          /\ Authenticated(h)
          /\ ~NoMatch(id)
          /\ updatePost(UpdateReq(h, b, id)) /\ Idle
          => LET i == FirstMatch(id)
                 old == POST_FILE[i]
                 new == POST_FILE'[i]
             IN /\ res'.status = 200
                /\ Len(POST_FILE') = Len(POST_FILE)
                /\ \A j \in DOMAIN POST_FILE : j # i => POST_FILE'[j] = POST_FILE[j]
                /\ Get(new, "title") = b.title
                /\ Get(new, "content") = b.content
                /\ "updatedAt" \in DOMAIN new
                /\ new.updatedAt = toISOString(clock)
                /\ new.id = old.id
                /\ new.createdAt = old.createdAt
                /\ DOMAIN new \subseteq
                       {"id", "title", "content", "createdAt", "updatedAt"}
                /\ res'.body = new]_vars

\* An update has succeeded on a collection that holds two posts with the same
\* id, and only the first of them carries updatedAt.
C9_Witness ==
    /\ res.route = "update" /\ res.status = 200
    /\ Len(POST_FILE) = 2
    /\ POST_FILE[1].id = POST_FILE[2].id
    /\ "updatedAt" \in DOMAIN POST_FILE[1]
    /\ "updatedAt" \notin DOMAIN POST_FILE[2]

(***************************************************************************)
(* C10. A successful create adds exactly one post, at the front, and       *)
(* changes no stored post, also when the clock value taken as the id is    *)
(* the id of a stored post: both are then stored under that id.            *)
(***************************************************************************)
C10_CreatePrepends ==
    [][\A h \in Headers, b \in Bodies :
          /\ res'.route = "create" /\ res'.status = 200
          /\ createPost(CreateReq(h, b)) /\ Idle
          => /\ POST_FILE' = <<res'.body>> \o POST_FILE
             /\ res'.body.id = clock
             /\ clock \in StoredIds =>
                  Cardinality({i \in DOMAIN POST_FILE' : POST_FILE'[i].id = clock})
                      >= 2]_vars

\* A create has succeeded although a post with the same id was stored: the
\* file holds both, the new one first.
C10_Witness ==
    /\ res.route = "create" /\ res.status = 200
    /\ Len(POST_FILE) >= 2
    /\ POST_FILE[1] = res.body
    /\ \E i \in 2..Len(POST_FILE) : POST_FILE[i].id = res.body.id

====
